---- MODULE Spec2Model ----
(***************************************************************************)
(* Model of the autonomous system orchestrator                             *)
(* (src/migrated_functionality/src/autonomous_system_orchestrator.py):     *)
(* the task queue and its two perpetual loops, the REST create handler,    *)
(* and the three agents (decision maker, process automator, self healer).  *)
(*                                                                         *)
(* Conventions.                                                            *)
(*  - Floats are kept exact: health_score and system_load are scaled by    *)
(*    100, option scores by 10, a confidence is a fraction [num, den].     *)
(*  - A timestamp is an ordinal, 0 standing for None: created_at numbers   *)
(*    the Tasks by creation, started_at and completed_at number the        *)
(*    dequeues.  Only their order and their being set are meaningful.      *)
(*  - asyncio is cooperative: an action runs from one suspension point     *)
(*    (await asyncio.sleep) to the next.                                   *)
(***************************************************************************)
EXTENDS Integers, Sequences, FiniteSets, TLC

VARIABLES
    task_queue,       \* orchestrator.task_queue: sequence of Task ids (indexes of tasks)
    tasks,            \* every AutonomousTask object ever constructed, by creation order
    system_state,     \* orchestrator.system_state
    proc,             \* position of _task_processing_loop
    dequeue_count,    \* number of Tasks popped so far
    status_log,       \* per Task, every value assigned to task.status, in order
    dispatches,       \* per Task, number of times it was handed to _execute_task
    response,         \* what the last REST call returned
    decision_history, \* decision_maker.decision_history
    decision,         \* what the last make_decision call returned or raised
    auto,             \* what the last execute_automation call did
    heal,             \* what the last diagnose_and_heal call did
    loops             \* the two perpetual loops: running, last sleep, failures in a row

vars == <<task_queue, tasks, system_state, proc, dequeue_count, status_log,
          dispatches, response, decision_history, decision, auto, heal, loops>>

----------------------------------------------------------------------------
(* Bounds of the model *)

MaxTasks == 3
MaxHistory == 2
MaxCalls == 2
MaxSymptoms == 3
MaxFailing == 2
MaxErrors == 2

----------------------------------------------------------------------------
(* Enums and Python values *)

PyStr(s) == [type |-> "str", v |-> s]
PyInt(n) == [type |-> "int", v |-> n]

\* Python ==: a str never equals an int
PyEq(a, b) == a.type = b.type /\ a.v = b.v

AgentType ==
    { [name |-> "DECISION_MAKER",    value |-> PyStr("decision_maker")],
      [name |-> "PROCESS_AUTOMATOR", value |-> PyStr("process_automator")],
      [name |-> "SYSTEM_MONITOR",    value |-> PyStr("system_monitor")],
      [name |-> "OPTIMIZER",         value |-> PyStr("optimizer")],
      [name |-> "SELF_HEALER",       value |-> PyStr("self_healer")] }

TaskPriority ==
    { [name |-> "CRITICAL", value |-> PyInt(1)],
      [name |-> "HIGH",     value |-> PyInt(2)],
      [name |-> "MEDIUM",   value |-> PyInt(3)],
      [name |-> "LOW",      value |-> PyInt(4)] }

\* Enum(value): the member whose value equals the argument, else ValueError
EnumHas(enum, x) == \E m \in enum : PyEq(m.value, x)
EnumCall(enum, x) == CHOOSE m \in enum : PyEq(m.value, x)

Member(enum, nm) == CHOOSE m \in enum : m.name = nm

None == [none |-> TRUE]

----------------------------------------------------------------------------
(* DecisionMakerAgent *)

\* A context is the mapping handed to make_decision: which of the four
\* classification keys it holds, and its "urgency" entry when present.
ContextKeys == {"performance_issue", "security_alert", "resource_constraint",
                "business_opportunity"}

Urgencies == {-1, 0, 2}

Contexts ==
    [keys : SUBSET ContextKeys, has_urgency : {TRUE}, urgency : Urgencies]
    \cup [keys : SUBSET ContextKeys, has_urgency : {FALSE}, urgency : {1}]

DecisionTypes == {"performance_optimization", "security_response",
                  "resource_allocation", "business_strategy",
                  "operational_decision"}

_classify_decision_type(context) ==
    IF "performance_issue" \in context.keys THEN "performance_optimization"
    ELSE IF "security_alert" \in context.keys THEN "security_response"
    ELSE IF "resource_constraint" \in context.keys THEN "resource_allocation"
    ELSE IF "business_opportunity" \in context.keys THEN "business_strategy"
    ELSE "operational_decision"

Option(a, i, c) == [action |-> a, impact |-> i, cost |-> c]

_generate_options(context) ==
    LET decision_type == _classify_decision_type(context) IN
    IF decision_type = "performance_optimization" THEN
        << Option("scale_resources", "high", "medium"),
           Option("optimize_algorithms", "medium", "low"),
           Option("restart_services", "medium", "low"),
           Option("investigate_root_cause", "high", "low") >>
    ELSE IF decision_type = "security_response" THEN
        << Option("isolate_affected_systems", "high", "high"),
           Option("update_security_policies", "medium", "low"),
           Option("notify_security_team", "high", "low"),
           Option("run_security_scan", "medium", "low") >>
    ELSE IF decision_type = "resource_allocation" THEN
        << Option("allocate_more_resources", "high", "high"),
           Option("optimize_current_resources", "medium", "low"),
           Option("queue_tasks", "low", "none"),
           Option("implement_caching", "medium", "medium") >>
    ELSE << >>

impact_score(impact) ==
    CASE impact = "high" -> 3 [] impact = "medium" -> 2 [] impact = "low" -> 1
      [] OTHER -> 1

cost_score(cost) ==
    CASE cost = "none" -> 3 [] cost = "low" -> 2 [] cost = "medium" -> 1
      [] cost = "high" -> 0 [] OTHER -> 1

\* ten times the score: (impact_score * 0.6 + cost_score * 0.4) * context_weight
_calculate_option_score(option, context) ==
    LET context_weight == IF context.has_urgency THEN context.urgency ELSE 1
    IN  (impact_score(option.impact) * 6 + cost_score(option.cost) * 4) * context_weight

\* the for loop of _select_best_option from position i on, carrying
\* (best_option, best_score); best is None or an option
RECURSIVE SelectLoop(_, _, _, _, _)
SelectLoop(options, context, i, best_option, best_score) ==
    IF i > Len(options) THEN best_option
    ELSE LET score == _calculate_option_score(options[i], context) IN
         IF score > best_score
         THEN SelectLoop(options, context, i + 1, options[i], score)
         ELSE SelectLoop(options, context, i + 1, best_option, best_score)

\* a slip: "return best_option", which hands back None for an empty list
MutSelectReturnsNone(options, context) ==
    LET best_option == SelectLoop(options, context, 1, None, -10) IN
    IF best_option # None THEN [raised |-> FALSE, option |-> best_option]
    ELSE IF Len(options) > 0 THEN [raised |-> FALSE, option |-> options[1]]
    ELSE [raised |-> FALSE, option |-> None]

\* [raised, option]: "best_option or options[0]" raises IndexError on an empty list
_select_best_option(options, context) ==
    LET best_option == SelectLoop(options, context, 1, None, -10) IN
    IF best_option # None THEN [raised |-> FALSE, option |-> best_option]
    ELSE IF Len(options) > 0 THEN [raised |-> FALSE, option |-> options[1]]
    ELSE [raised |-> TRUE, option |-> None]

\* a slip: d.get('success', False), which counts only the flagged records
MutCountsFlaggedOnly(d) == d.success = "true"

\* d.get('success', True) is truthy
CountsAsSuccess(d) == d.success # "false"

Frac(n, d) == [num |-> n, den |-> d]

\* min(1.0, base_confidence)
MinOne(f) == IF f.num > f.den THEN Frac(1, 1) ELSE f

\* the prior decisions of the context's classified type
SimilarDecisions(history, context) ==
    SelectSeq(history, LAMBDA d : d.type = _classify_decision_type(context))

\* a slip: the sum of base and success rate, neither halved nor clamped
Mut_calculate_confidence(history, context) ==
    LET similar_decisions == SimilarDecisions(history, context)
        successes == SelectSeq(similar_decisions, CountsAsSuccess)
    IN  IF Len(similar_decisions) > 0
        THEN Frac(7 * Len(similar_decisions) + 10 * Len(successes),
                  10 * Len(similar_decisions))
        ELSE Frac(7, 10)
\* base_confidence 0.7, or (0.7 + success_rate) / 2 when similar decisions
\* exist, success_rate being successes / len(similar_decisions)
_calculate_confidence(history, context) ==
    LET similar_decisions == SimilarDecisions(history, context)
        successes == SelectSeq(similar_decisions, CountsAsSuccess)
    IN  IF Len(similar_decisions) > 0
        THEN MinOne(Frac(7 * Len(similar_decisions) + 10 * Len(successes),
                         20 * Len(similar_decisions)))
        ELSE MinOne(Frac(7, 10))

\* a slip: the Decision is returned without being appended to the history
MutDecisionNotRecorded(history, context) ==
    LET decision_type == _classify_decision_type(context)
        decision_options == _generate_options(context)
        best == _select_best_option(decision_options, context)
    IN  IF best.raised
        THEN [raised |-> TRUE, decision |-> None, history |-> history]
        ELSE [raised |-> FALSE,
              decision |-> [type |-> decision_type, selected_option |-> best.option,
                            confidence |-> _calculate_confidence(history, context)],
              history |-> history]

\* what make_decision does on a history: it raises (history untouched), or it
\* returns the Decision and appends it
make_decision(history, context) ==
    LET decision_type == _classify_decision_type(context)
        decision_options == _generate_options(context)
        best == _select_best_option(decision_options, context)
    IN  IF best.raised
        THEN [raised |-> TRUE, decision |-> None, history |-> history]
        ELSE LET d == [type |-> decision_type,
                       selected_option |-> best.option,
                       confidence |-> _calculate_confidence(history, context)]
             IN  [raised |-> FALSE, decision |-> d,
                  history |-> Append(history, [type |-> decision_type, success |-> "unset"])]

----------------------------------------------------------------------------
(* ProcessAutomatorAgent *)

Step(a, t) == [action |-> a, timeout |-> t]

\* templates.get(process_type): the template, or None
_get_process_template(process_type) ==
    CASE process_type = "deployment" ->
           [steps |-> << Step("validate_config", 30), Step("build_images", 300),
                         Step("run_tests", 120), Step("deploy_services", 180),
                         Step("verify_deployment", 60) >>]
      [] process_type = "scaling" ->
           [steps |-> << Step("analyze_load", 30), Step("calculate_requirements", 15),
                         Step("provision_resources", 120), Step("update_configuration", 30),
                         Step("verify_scaling", 60) >>]
      [] process_type = "backup" ->
           [steps |-> << Step("prepare_backup", 30), Step("create_backup", 600),
                         Step("verify_backup", 60), Step("cleanup_old_backups", 120) >>]
      [] OTHER -> None

\* process types a caller may pass; "None" is Python's None (the key is missing
\* from a Task's parameters), "restore" is a name no template has
ProcessTypes == {"deployment", "scaling", "backup", "restore", "None"}

StepActions(process_type) ==
    LET template == _get_process_template(process_type) IN
    IF template = None THEN {}
    ELSE {template.steps[i].action : i \in 1..Len(template.steps)}

\* _execute_step has two return shapes: the try body's result (success) and the
\* except handler's (failure).  Which one a step takes is the executor's
\* behaviour, given as the set `failing` of actions whose execution raises.
_execute_step(step, failing) ==
    IF step.action \notin failing
    THEN [action |-> step.action, success |-> TRUE, error |-> "", duration |-> 1]
    ELSE [action |-> step.action, success |-> FALSE, error |-> "step raised",
          duration |-> 0]

\* a slip: the loop does not return at a failed step
RECURSIVE MutStepLoopRunsOn(_, _, _, _)
MutStepLoopRunsOn(steps, failing, i, results) ==
    IF i > Len(steps)
    THEN LET failed == SelectSeq(results, LAMBDA r : ~r.success) IN
         [success |-> Len(failed) = 0,
          error |-> IF Len(failed) = 0 THEN "" ELSE failed[1].error,
          results |-> results,
          completed_steps |-> Len(results), total_steps |-> Len(steps)]
    ELSE MutStepLoopRunsOn(steps, failing, i + 1,
                           Append(results, _execute_step(steps[i], failing)))
\* the for loop of execute_automation from step i on; results holds the step
\* results so far (one per call of _execute_step)
RECURSIVE StepLoop(_, _, _, _)
StepLoop(steps, failing, i, results) ==
    IF i > Len(steps)
    THEN [success |-> TRUE, error |-> "", results |-> results,
          completed_steps |-> Len(results), total_steps |-> Len(steps)]
    ELSE LET step_result == _execute_step(steps[i], failing)
             results2 == Append(results, step_result)
         IN  IF ~step_result.success
             THEN [success |-> FALSE, error |-> step_result.error, results |-> results2,
                   completed_steps |-> Len(results2), total_steps |-> Len(steps)]
             ELSE StepLoop(steps, failing, i + 1, results2)

\* a slip: templates.get(process_type, <the backup template>)
MutTemplateOrDefault(process_type) ==
    IF process_type \in {"deployment", "scaling", "backup"}
    THEN _get_process_template(process_type)
    ELSE _get_process_template("backup")
\* the template execute_automation loads
LoadTemplate(process_type) == _get_process_template(process_type)

\* [raised, error, outcome]; outcome.results lists the calls made to _execute_step
\* (the failure Outcome of the code carries no 'results' key: read it only to
\* know which steps ran)
execute_automation(process_type, failing) ==
    LET template == LoadTemplate(process_type) IN
    IF template = None
    THEN [raised |-> TRUE, error |-> "Unknown process type", outcome |-> None]
    ELSE [raised |-> FALSE, error |-> "",
          outcome |-> StepLoop(template.steps, failing, 1, << >>)]

----------------------------------------------------------------------------
(* SelfHealerAgent *)

\* A string is a sequence of tokens; a marker is found in a text when its
\* tokens occur next to each other, in order.
Contains(text, marker) ==
    \E i \in 1..(Len(text) - Len(marker) + 1) :
        SubSeq(text, i, i + Len(marker) - 1) = marker

CONNECTION_REFUSED == <<"connection", "_refused">>
OUT_OF_MEMORY == <<"out_of", "_memory">>
TIMEOUT == <<"timeout">>

SymptomStrings ==
    { CONNECTION_REFUSED, OUT_OF_MEMORY, TIMEOUT, <<"out_of">>, <<"_memory">>,
      <<"high_system_load">> }

\* str(symptoms) of a list of strings: "['a', 'b']"
RECURSIVE JoinRepr(_)
JoinRepr(symptoms) ==
    IF Len(symptoms) = 0 THEN << >>
    ELSE IF Len(symptoms) = 1 THEN <<"'">> \o symptoms[1] \o <<"'">>
    ELSE <<"'">> \o symptoms[1] \o <<"'">> \o <<", ">> \o JoinRepr(Tail(symptoms))

str(symptoms) == <<"[">> \o JoinRepr(symptoms) \o <<"]">>

\* issue.get('symptoms', [])
GetSymptoms(issue) == IF "symptoms" \in DOMAIN issue THEN issue.symptoms ELSE << >>

\* a slip: the timeout rule is tried before the out_of_memory rule
Mut_diagnose_issue(issue) ==
    LET symptoms == GetSymptoms(issue) IN
    IF Contains(str(symptoms), CONNECTION_REFUSED) THEN
        [issue_type |-> "service_unavailable", severity |-> "high", confidence |-> 90]
    ELSE IF Contains(str(symptoms), TIMEOUT) THEN
        [issue_type |-> "performance_degradation", severity |-> "medium", confidence |-> 80]
    ELSE IF Contains(str(symptoms), OUT_OF_MEMORY) THEN
        [issue_type |-> "resource_exhaustion", severity |-> "critical", confidence |-> 95]
    ELSE
        [issue_type |-> "unknown", severity |-> "medium", confidence |-> 30]
\* confidence is scaled by 100
_diagnose_issue(issue) ==
    LET symptoms == GetSymptoms(issue) IN
    IF Contains(str(symptoms), CONNECTION_REFUSED) THEN
        [issue_type |-> "service_unavailable", severity |-> "high", confidence |-> 90]
    ELSE IF Contains(str(symptoms), OUT_OF_MEMORY) THEN
        [issue_type |-> "resource_exhaustion", severity |-> "critical", confidence |-> 95]
    ELSE IF Contains(str(symptoms), TIMEOUT) THEN
        [issue_type |-> "performance_degradation", severity |-> "medium", confidence |-> 80]
    ELSE
        [issue_type |-> "unknown", severity |-> "medium", confidence |-> 30]

Strategy(a, p) == [action |-> a, priority |-> p]

healing_strategies(issue_type) ==
    CASE issue_type = "service_unavailable" ->
           << Strategy("restart_service", 1), Strategy("check_dependencies", 2),
              Strategy("verify_configuration", 3) >>
      [] issue_type = "resource_exhaustion" ->
           << Strategy("scale_resources", 1), Strategy("optimize_memory_usage", 2),
              Strategy("restart_services", 3) >>
      [] issue_type = "performance_degradation" ->
           << Strategy("analyze_performance", 1), Strategy("optimize_queries", 2),
              Strategy("scale_horizontally", 3) >>
      [] OTHER ->
           << Strategy("investigate_issue", 1), Strategy("collect_logs", 2) >>

time_estimates(action) ==
    CASE action = "restart_service" -> 5
      [] action = "scale_resources" -> 10
      [] action = "optimize_memory_usage" -> 15
      [] action = "analyze_performance" -> 20
      [] action = "investigate_issue" -> 30
      [] OTHER -> 10

RECURSIVE _estimate_healing_time(_)
_estimate_healing_time(strategies) ==
    IF Len(strategies) = 0 THEN 0
    ELSE time_estimates(strategies[1].action) + _estimate_healing_time(Tail(strategies))

\* a slip: the table is looked up by severity, which is never one of its keys
Mut_create_healing_plan(diagnosis) ==
    LET strategies == healing_strategies(diagnosis.severity) IN
    [issue_type |-> diagnosis.issue_type, severity |-> diagnosis.severity,
     strategies |-> strategies, estimated_duration |-> _estimate_healing_time(strategies)]

_create_healing_plan(diagnosis) ==
    LET strategies == healing_strategies(diagnosis.issue_type) IN
    [issue_type |-> diagnosis.issue_type, severity |-> diagnosis.severity,
     strategies |-> strategies, estimated_duration |-> _estimate_healing_time(strategies)]

\* success_rate is scaled by 100; every result is built with 'success': True
_execute_healing(healing_plan) ==
    LET strategies == healing_plan.strategies
        results == [i \in 1..Len(strategies) |->
                       [action |-> strategies[i].action,
                        priority |-> strategies[i].priority, success |-> TRUE]]
    IN  [strategies_executed |-> Len(results), total_strategies |-> Len(strategies),
         success_rate |-> 100, results |-> results]

diagnose_and_heal(issue) ==
    LET diagnosis == _diagnose_issue(issue)
        healing_plan == _create_healing_plan(diagnosis)
    IN  [diagnosis |-> diagnosis, healing_plan |-> healing_plan,
         healing_result |-> _execute_healing(healing_plan)]

\* The execution of a strategy is "await asyncio.sleep(1)", with no handler in
\* _execute_healing: which executions raise is the executor's behaviour, given
\* as the set `failing` of actions.  A raise leaves _execute_healing and then
\* diagnose_and_heal (logged and re-raised), and no Report is returned.
StrategyRaises(issue, failing) ==
    LET healing_plan == _create_healing_plan(_diagnose_issue(issue)) IN
    \E i \in 1..Len(healing_plan.strategies) :
        healing_plan.strategies[i].action \in failing

\* [raised, report] of diagnose_and_heal under an executor behaviour
HealingRun(issue, failing) ==
    IF StrategyRaises(issue, failing)
    THEN [raised |-> TRUE, report |-> None]
    ELSE [raised |-> FALSE, report |-> diagnose_and_heal(issue)]

----------------------------------------------------------------------------
(* AutonomousTask and SystemState *)

Get(mapping, key, default) == IF key \in DOMAIN mapping THEN mapping[key] ELSE default

\* f"{prefix}_{int(time.time())}": a creator's prefix and the wall-clock second
\* of the creation.  Seconds are ordinals: 1 is the second of the first
\* creation, and a later second has a greater ordinal.
TaskId(prefix, second) == [prefix |-> prefix, second |-> second]

\* the prefixes the orchestrator's own creators use (create_task, and the
\* monitoring loop for issues and for optimizations)
CreatorPrefixes == {"task", "healing", "optimization"}
MonitorPrefixes == {"healing", "optimization"}

\* the latest second in which a creator with one of the prefixes made a Task
\* (0: none yet)
LastSecond(all, prefixes) ==
    LET seconds == {all[i].task_id.second :
                       i \in {j \in 1..Len(all) : all[j].task_id.prefix \in prefixes}}
    IN  IF seconds = {} THEN 0 ELSE CHOOSE s \in seconds : \A t \in seconds : t <= s

\* int(time.time()) as a request handler may read it: the second of the latest
\* creation, or a later one
RequestSeconds(all) ==
    {LastSecond(all, CreatorPrefixes), LastSecond(all, CreatorPrefixes) + 1} \ {0}

\* a slip: no sleep between two monitoring iterations
MutMonitorNoSleep(all) ==
    {LastSecond(all, CreatorPrefixes), LastSecond(all, CreatorPrefixes) + 1} \ {0}

\* int(time.time()) as a monitoring iteration may read it: as for a handler,
\* and later than the loop's previous iteration, which ended in sleep(60).
\* Every Task of one iteration gets the same second (the reads are
\* microseconds apart).
MonitorSeconds(all) ==
    {s \in RequestSeconds(all) : s > LastSecond(all, MonitorPrefixes)}

\* AutonomousTask(...) as its three constructors build it: status 'pending',
\* created_at = now, the four Optional fields None (0 for the timestamps)
AutonomousTask(task_id, agent_type, priority, parameters, now) ==
    [task_id |-> task_id, agent_type |-> agent_type, priority |-> priority, parameters |-> parameters,
     status |-> "pending", created_at |-> now, started_at |-> 0, completed_at |-> 0,
     result |-> None, error_message |-> ""]

InitialSystemState ==
    [health_score |-> 100, active_tasks |-> 0, completed_tasks |-> 0,
     failed_tasks |-> 0, system_load |-> 0]

\* a slip: every Task ever made is counted, not the queue's
MutCountEveryTask(queue, all, status) ==
    Cardinality({i \in 1..Len(all) : all[i].status = status})

\* the Tasks held in the queue that have the given status
CountStatus(queue, all, status) ==
    Cardinality({i \in 1..Len(queue) : all[queue[i]].status = status})

\* hash(str(datetime.now())) % 10 and % 70 of one refresh: any pair of residues
\* may come out.  The model draws from two: health 0.95 with load 0.90 (no
\* threshold crossed) and health 1.04 with load 0.91 (load above 0.9).
HashResidues == { <<0, 60>>, <<9, 61>> }

\* a slip: the pending Tasks are taken off the count
MutCompletedDelta(queue, all) ==
    CountStatus(queue, all, "completed") - CountStatus(queue, all, "pending")
\* what _update_system_state adds to completed_tasks
CompletedDelta(queue, all) == CountStatus(queue, all, "completed")

\* a slip: the residue is taken off 0.95, twice over, instead of added
Mut_update_system_state(state, queue, all, h, l) ==
    [state EXCEPT !.health_score = 95 - 2 * h,
                  !.active_tasks = CountStatus(queue, all, "in_progress"),
                  !.completed_tasks = @ + CompletedDelta(queue, all),
                  !.system_load = 30 + l]

\* the SystemState after _update_system_state (timestamp left out)
_update_system_state(state, queue, all, h, l) ==
    [state EXCEPT !.health_score = 95 + h,
                  !.active_tasks = CountStatus(queue, all, "in_progress"),
                  !.completed_tasks = @ + CompletedDelta(queue, all),
                  !.system_load = 30 + l]

\* a slip: "system_load >= 0.9"
Mut_detect_issues(state) ==
    (IF state.health_score < 80
       THEN << [type |-> "health_degradation", severity |-> "medium",
                symptoms |-> << <<"low_health_score">> >>] >>
       ELSE << >>)
    \o
    (IF state.system_load >= 90
       THEN << [type |-> "high_load", severity |-> "high",
                symptoms |-> << <<"high_system_load">> >>] >>
       ELSE << >>)

_detect_issues(state) ==
    (IF state.health_score < 80
       THEN << [type |-> "health_degradation", severity |-> "medium",
                symptoms |-> << <<"low_health_score">> >>] >>
       ELSE << >>)
    \o
    (IF state.system_load > 90
       THEN << [type |-> "high_load", severity |-> "high",
                symptoms |-> << <<"high_system_load">> >>] >>
       ELSE << >>)

_detect_optimizations(state) ==
    IF state.completed_tasks > 100
    THEN << [type |-> "task_cleanup", potential_benefit |-> "memory_optimization"] >>
    ELSE << >>

----------------------------------------------------------------------------
(* The priority queue *)

PriorityValue(all, id) == all[id].priority.value.v

Bucket(queue, all, p) == SelectSeq(queue, LAMBDA id : PriorityValue(all, id) = p)

Reverse(q) == [i \in 1..Len(q) |-> q[Len(q) + 1 - i]]

\* slips: a sort that reverses equal keys; no sort at all
MutSortUnstable(queue, all) ==
    Reverse(Bucket(queue, all, 1)) \o Reverse(Bucket(queue, all, 2))
    \o Reverse(Bucket(queue, all, 3)) \o Reverse(Bucket(queue, all, 4))
MutSortOmitted(queue, all) == queue
\* a slip: a second pop, whose Task is dropped
MutPopTwice(sorted) == IF Len(sorted) > 1 THEN Tail(Tail(sorted)) ELSE Tail(sorted)
\* a slip: task_queue[0] in place of task_queue.pop(0)
MutPeek(sorted) == sorted
\* what task_queue.pop(0) leaves in the queue
AfterPop(sorted) == Tail(sorted)

\* task_queue.sort(key=lambda t: t.priority.value): list.sort is stable, so the
\* result is the Tasks of value 1 in queue order, then those of value 2, ...
SortByPriority(queue, all) ==
    Bucket(queue, all, 1) \o Bucket(queue, all, 2)
    \o Bucket(queue, all, 3) \o Bucket(queue, all, 4)

----------------------------------------------------------------------------
(* Orchestrator: dispatch *)

DECISION_MAKER == Member(AgentType, "DECISION_MAKER")
PROCESS_AUTOMATOR == Member(AgentType, "PROCESS_AUTOMATOR")
SYSTEM_MONITOR == Member(AgentType, "SYSTEM_MONITOR")
OPTIMIZER == Member(AgentType, "OPTIMIZER")
SELF_HEALER == Member(AgentType, "SELF_HEALER")

\* the dict execute_automation returns: 'results' only on success, 'error'
\* only on failure
Outcome(o) ==
    IF o.success
    THEN [success |-> TRUE, results |-> o.results,
          completed_steps |-> o.completed_steps, total_steps |-> o.total_steps]
    ELSE [success |-> FALSE, error |-> o.error,
          completed_steps |-> o.completed_steps, total_steps |-> o.total_steps]

\* a slip: a tag without an agent raises instead of yielding an error result
MutUnknownAgentRaises(task, history, failing) ==
    IF task.agent_type = DECISION_MAKER THEN
        LET r == make_decision(history, task.parameters) IN
        [raised |-> r.raised, error |-> "list index out of range",
         result |-> r.decision, history |-> r.history]
    ELSE IF task.agent_type = PROCESS_AUTOMATOR THEN
        LET r == execute_automation(Get(task.parameters, "process_type", "None"), failing) IN
        [raised |-> r.raised, error |-> r.error,
         result |-> IF r.raised THEN None ELSE Outcome(r.outcome), history |-> history]
    ELSE IF task.agent_type = SELF_HEALER THEN
        LET r == HealingRun(task.parameters, failing) IN
        [raised |-> r.raised, error |-> "strategy raised", result |-> r.report,
         history |-> history]
    ELSE
        [raised |-> TRUE, error |-> "Unknown agent type", result |-> None,
         history |-> history]

\* the if/elif chain of _execute_task: [raised, error, result, history]
AgentCall(task, history, failing) ==
    IF task.agent_type = DECISION_MAKER THEN
        LET r == make_decision(history, task.parameters) IN
        [raised |-> r.raised, error |-> "list index out of range",
         result |-> r.decision, history |-> r.history]
    ELSE IF task.agent_type = PROCESS_AUTOMATOR THEN
        LET r == execute_automation(Get(task.parameters, "process_type", "None"), failing) IN
        [raised |-> r.raised, error |-> r.error,
         result |-> IF r.raised THEN None ELSE Outcome(r.outcome), history |-> history]
    ELSE IF task.agent_type = SELF_HEALER THEN
        LET r == HealingRun(task.parameters, failing) IN
        [raised |-> r.raised, error |-> "strategy raised", result |-> r.report,
         history |-> history]
    ELSE
        [raised |-> FALSE, error |-> "",
         result |-> [error |-> "Unknown agent type"], history |-> history]

\* the agent awaits asyncio.sleep before it returns: the automator once per
\* step of a registered template, the healer once per strategy
AgentSuspends(task) ==
    \/ /\ task.agent_type = PROCESS_AUTOMATOR
       /\ _get_process_template(Get(task.parameters, "process_type", "None")) # None
    \/ task.agent_type = SELF_HEALER

\* a slip: the handler marks the Task failed and drops the exception's text
MutFailedWithoutMessage(task, call, now) ==
    IF call.raised
    THEN [task EXCEPT !.status = "failed", !.completed_at = now]
    ELSE [task EXCEPT !.result = call.result, !.status = "completed",
                      !.completed_at = now]

\* a slip: the start timestamp is set, the status is not
MutStartedStatusKept(task, now) == [task EXCEPT !.started_at = now]
\* _execute_task up to the agent call
Started(task, now) == [task EXCEPT !.status = "in_progress", !.started_at = now]

\* a slip: a returning agent's result is stored, the status is not
MutFinishedStatusKept(task, call, now) ==
    IF call.raised
    THEN [task EXCEPT !.status = "failed", !.error_message = call.error,
                      !.completed_at = now]
    ELSE [task EXCEPT !.result = call.result, !.completed_at = now]

\* a slip: the except handler logs the exception and records nothing
MutRaiseNotRecorded(task, call, now) ==
    IF call.raised
    THEN task
    ELSE [task EXCEPT !.result = call.result, !.status = "completed",
                      !.completed_at = now]

\* _execute_task after the agent call: the try body's tail, or the except handler
Finished(task, call, now) ==
    IF call.raised
    THEN [task EXCEPT !.status = "failed", !.error_message = call.error,
                      !.completed_at = now]
    ELSE [task EXCEPT !.result = call.result, !.status = "completed",
                      !.completed_at = now]

\* the executor behaviours a dispatched automation may meet
TaskFailing == { {}, {"create_backup"} }

----------------------------------------------------------------------------
(* Orchestrator: actions *)

\* the Tasks an in-process producer appends: an automation that runs (the agent
\* suspends), one without a process_type (the agent raises at once), and one
\* whose agent-type tag has no agent
TaskKinds ==
    { [agent_type |-> PROCESS_AUTOMATOR, parameters |-> [process_type |-> "backup"]],
      [agent_type |-> PROCESS_AUTOMATOR, parameters |-> [target |-> "db"]],
      [agent_type |-> OPTIMIZER, parameters |-> [target |-> "db"]] }

\* task_queue.append(task), once per entry of new, each Task built with
\* status 'pending' and created_at = now
AppendTasks(new) ==
    /\ tasks' = tasks \o [i \in 1..Len(new) |->
                    AutonomousTask(new[i].task_id, new[i].agent_type, new[i].priority,
                                   new[i].parameters, Len(tasks) + i)]
    /\ task_queue' = task_queue \o [i \in 1..Len(new) |-> Len(tasks) + i]
    /\ status_log' = status_log \o [i \in 1..Len(new) |-> <<"pending">>]
    /\ dispatches' = dispatches \o [i \in 1..Len(new) |-> 0]

\* an in-process producer appends a Task of any kind and priority, under an
\* id of its own making (a serial number)
Enqueue(kind, priority) ==
    /\ Len(tasks) < MaxTasks
    /\ AppendTasks(<< [task_id |-> TaskId("job", Len(tasks) + 1),
                       agent_type |-> kind.agent_type, priority |-> priority,
                       parameters |-> kind.parameters] >>)
    /\ UNCHANGED <<system_state, proc, dequeue_count, response, decision_history,
                   decision, auto, heal, loops>>

\* POST /tasks.  TaskRequest declares agent_type and priority as str, so the
\* handler always sees strings (a JSON number is either turned into a string
\* or refused by the request model before the handler runs).
RequestAgentTypes == {"decision_maker", "process_automator", "system_monitor",
                      "optimizer", "self_healer", "planner"}
RequestPriorities == {"1", "2", "3", "4", "HIGH", "urgent"}
Requests == [agent_type : RequestAgentTypes, priority : RequestPriorities]
RequestParameters ==
    [keys |-> {"performance_issue"}, has_urgency |-> FALSE, urgency |-> 1,
     process_type |-> "backup"]

\* TaskPriority(request.priority) finds a member
PriorityAccepted(text) == EnumHas(TaskPriority, PyStr(text))

\* str(e) of the ValueError an enum lookup raises: "'urgent' is not a valid
\* TaskPriority".  The constructor's arguments are evaluated in order, so a bad
\* agent_type is reported before the priority is looked at.
EnumError(request) ==
    IF ~EnumHas(AgentType, PyStr(request.agent_type))
    THEN [value |-> request.agent_type, enum |-> "AgentType"]
    ELSE [value |-> request.priority, enum |-> "TaskPriority"]

MutInternalError(request) ==
    [op |-> "create_task", code |-> 500, status |-> "error", task |-> 0,
     detail |-> EnumError(request)]

\* raise HTTPException(status_code=400, detail=str(e))
BadRequest(request) ==
    [op |-> "create_task", code |-> 400, status |-> "error", task |-> 0,
     detail |-> EnumError(request)]

create_task(request) ==
    /\ Len(tasks) < MaxTasks
    /\ IF /\ EnumHas(AgentType, PyStr(request.agent_type))
          /\ PriorityAccepted(request.priority)
       THEN /\ \E second \in RequestSeconds(tasks) :
                 AppendTasks(<< [task_id |-> TaskId("task", second),
                               agent_type |-> EnumCall(AgentType, PyStr(request.agent_type)),
                               priority |-> EnumCall(TaskPriority, PyStr(request.priority)),
                               parameters |-> RequestParameters] >>)
            /\ response' = [op |-> "create_task", code |-> 200, status |-> "created",
                            task |-> Len(tasks'), detail |-> None]
       ELSE /\ response' = BadRequest(request)
            /\ UNCHANGED <<task_queue, tasks, status_log, dispatches>>
    /\ UNCHANGED <<system_state, proc, dequeue_count, decision_history, decision,
                   auto, heal, loops>>

\* the seconds each loop sleeps between two iterations
MONITOR_INTERVAL == 60
PROCESS_INTERVAL == 5

\* a loop whose iteration reached the sleep that ends its try block
Slept(loop, interval) == [loop EXCEPT !.interval = interval, !.failures = 0]

\* a slip: the handler logs and re-raises, which ends the loop's coroutine
MutLoopReraises(loop, interval) ==
    [loop EXCEPT !.alive = FALSE, !.failures = @ + 1]

\* a loop whose iteration raised: "except Exception" logs and sleeps the same
\* interval, and "while True" goes on
LoopExcept(loop, interval) ==
    [loop EXCEPT !.interval = interval, !.failures = @ + 1]

\* one iteration of _monitoring_loop, from one sleep(60) to the next
_monitoring_loop(h, l) ==
    \E second \in MonitorSeconds(tasks) :
    LET state == _update_system_state(system_state, task_queue, tasks, h, l)
        issues == _detect_issues(state)
        optimizations == _detect_optimizations(state)
        new == [i \in 1..Len(issues) |->
                   [task_id |-> TaskId("healing", second),
                    agent_type |-> SELF_HEALER, priority |-> Member(TaskPriority, "HIGH"),
                    parameters |-> [issue |-> issues[i]]]]
               \o
               [i \in 1..Len(optimizations) |->
                   [task_id |-> TaskId("optimization", second),
                    agent_type |-> OPTIMIZER, priority |-> Member(TaskPriority, "MEDIUM"),
                    parameters |-> [optimization |-> optimizations[i]]]]
    IN  /\ loops.monitoring.alive
        /\ Len(tasks) + Len(new) <= MaxTasks
        /\ system_state' = state
        /\ AppendTasks(new)
        /\ loops' = [loops EXCEPT !.monitoring = Slept(@, MONITOR_INTERVAL)]
        /\ UNCHANGED <<proc, dequeue_count, response, decision_history, decision,
                       auto, heal>>

\* an iteration of _monitoring_loop in which an exception is raised after the
\* state refresh and before a Task is appended (a MemoryError while the issues
\* are collected or a Task is built, say)
_monitoring_loop_raises(h, l) ==
    /\ loops.monitoring.alive
    /\ loops.monitoring.failures < MaxErrors
    /\ system_state' = _update_system_state(system_state, task_queue, tasks, h, l)
    /\ loops' = [loops EXCEPT !.monitoring = LoopExcept(@, MONITOR_INTERVAL)]
    /\ UNCHANGED <<task_queue, tasks, proc, dequeue_count, status_log, dispatches,
                   response, decision_history, decision, auto, heal>>

\* one iteration of _task_processing_loop on a non-empty queue, up to its next
\* suspension: the await inside the agent, or sleep(5) when the agent does not
\* suspend (then _execute_task runs to its end within this step)
_task_processing_loop ==
    /\ loops.processing.alive
    /\ proc.pc = "sleep"
    /\ Len(task_queue) > 0
    /\ LET sorted == SortByPriority(task_queue, tasks)
           id == Head(sorted)
           task == Started(tasks[id], dequeue_count + 1)
           call == AgentCall(task, decision_history, {})
       IN  /\ task_queue' = AfterPop(sorted)
           /\ dequeue_count' = dequeue_count + 1
           /\ dispatches' = [dispatches EXCEPT ![id] = @ + 1]
           /\ IF AgentSuspends(task)
              THEN /\ tasks' = [tasks EXCEPT ![id] = task]
                   /\ status_log' = [status_log EXCEPT ![id] = Append(@, task.status)]
                   /\ proc' = [pc |-> "await_agent", task |-> id]
                   /\ UNCHANGED <<decision_history, loops>>
              ELSE /\ tasks' = [tasks EXCEPT ![id] = Finished(task, call, dequeue_count + 1)]
                   /\ status_log' = [status_log EXCEPT
                                       ![id] = @ \o <<task.status, tasks'[id].status>>]
                   /\ proc' = proc
                   /\ decision_history' = call.history
                   /\ loops' = [loops EXCEPT !.processing = Slept(@, PROCESS_INTERVAL)]
    /\ UNCHANGED <<system_state, response, decision, auto, heal>>

\* an iteration of _task_processing_loop in which task_queue.sort raises before
\* a Task is popped (the keys are computed first, so the queue keeps its order)
_task_processing_loop_raises ==
    /\ loops.processing.alive
    /\ loops.processing.failures < MaxErrors
    /\ proc.pc = "sleep"
    /\ Len(task_queue) > 0
    /\ loops' = [loops EXCEPT !.processing = LoopExcept(@, PROCESS_INTERVAL)]
    /\ UNCHANGED <<task_queue, tasks, system_state, proc, dequeue_count, status_log,
                   dispatches, response, decision_history, decision, auto, heal>>

\* the suspended agent returns and _execute_task runs to its end
_execute_task(failing) ==
    /\ proc.pc = "await_agent"
    /\ LET id == proc.task
           call == AgentCall(tasks[id], decision_history, failing)
       IN  /\ tasks' = [tasks EXCEPT ![id] = Finished(tasks[id], call, dequeue_count)]
           /\ status_log' = [status_log EXCEPT ![id] = Append(@, tasks'[id].status)]
           /\ decision_history' = call.history
    /\ proc' = [pc |-> "sleep", task |-> 0]
    /\ loops' = [loops EXCEPT !.processing = Slept(@, PROCESS_INTERVAL)]
    /\ UNCHANGED <<task_queue, system_state, dequeue_count, dispatches,
                   response, decision, auto, heal>>

----------------------------------------------------------------------------
(* The orchestrator as constructed, and its behaviours *)

InitOrchestrator ==
    /\ task_queue = << >>
    /\ tasks = << >>
    /\ system_state = InitialSystemState
    /\ proc = [pc |-> "sleep", task |-> 0]
    /\ dequeue_count = 0
    /\ status_log = << >>
    /\ dispatches = << >>
    /\ response = [op |-> "none", code |-> 0, status |-> "", task |-> 0, detail |-> None]
    /\ loops = [monitoring |-> [alive |-> TRUE, interval |-> 0, failures |-> 0],
                processing |-> [alive |-> TRUE, interval |-> 0, failures |-> 0]]

Init ==
    /\ InitOrchestrator
    /\ decision_history = << >>
    /\ decision = [called |-> FALSE]
    /\ auto = [called |-> FALSE]
    /\ heal = [called |-> FALSE]

Next ==
    \/ \E kind \in TaskKinds, priority \in TaskPriority : Enqueue(kind, priority)
    \/ \E hl \in HashResidues : _monitoring_loop(hl[1], hl[2])
    \/ _task_processing_loop
    \/ \E failing \in TaskFailing : _execute_task(failing)

Spec == Init /\ [][Next]_vars

\* the two loops with iterations that raise, beside producers at one priority
NextLoops ==
    \/ \E kind \in TaskKinds : Enqueue(kind, Member(TaskPriority, "MEDIUM"))
    \/ \E hl \in HashResidues : _monitoring_loop(hl[1], hl[2])
    \/ \E hl \in HashResidues : _monitoring_loop_raises(hl[1], hl[2])
    \/ _task_processing_loop
    \/ _task_processing_loop_raises
    \/ \E failing \in TaskFailing : _execute_task(failing)

SpecLoops == Init /\ [][NextLoops]_vars

\* Tasks whose agent raises (an automation without a process_type, one of an
\* unregistered type, a decision with no options), beside a decision and an
\* automation that run
FailKinds ==
    { [agent_type |-> PROCESS_AUTOMATOR, parameters |-> [target |-> "db"]],
      [agent_type |-> PROCESS_AUTOMATOR, parameters |-> [process_type |-> "restore"]],
      [agent_type |-> DECISION_MAKER,
       parameters |-> [keys |-> {"business_opportunity"}, has_urgency |-> FALSE,
                       urgency |-> 1]],
      [agent_type |-> DECISION_MAKER,
       parameters |-> [keys |-> {"performance_issue"}, has_urgency |-> FALSE,
                       urgency |-> 1]],
      [agent_type |-> PROCESS_AUTOMATOR, parameters |-> [process_type |-> "backup"]] }

NextFail ==
    \/ \E kind \in FailKinds : Enqueue(kind, Member(TaskPriority, "MEDIUM"))
    \/ _task_processing_loop
    \/ \E failing \in TaskFailing : _execute_task(failing)

SpecFail == Init /\ [][NextFail]_vars

\* the processing loop under the event loop's scheduling: finitely many Tasks
\* arrive, an iteration that can run does run (its sleep of 5 s ends), and an
\* awaited agent call returns or raises
FairKinds ==
    { [agent_type |-> PROCESS_AUTOMATOR, parameters |-> [target |-> "db"]],
      [agent_type |-> PROCESS_AUTOMATOR, parameters |-> [process_type |-> "backup"]] }

NextFair ==
    \/ \E kind \in FairKinds : Enqueue(kind, Member(TaskPriority, "MEDIUM"))
    \/ _task_processing_loop
    \/ _task_processing_loop_raises
    \/ \E failing \in TaskFailing : _execute_task(failing)

SpecFair ==
    /\ Init /\ [][NextFair]_vars
    /\ WF_vars(_task_processing_loop)
    /\ WF_vars(\E failing \in TaskFailing : _execute_task(failing))

\* the residues at the ends of their ranges (hash % 10 in 0..9, hash % 70 in
\* 0..69) and on both sides of the load threshold
EdgeResidues == {0, 9} \X {0, 60, 61, 69}

\* the monitoring loop as the only source of Tasks, with the processing loop
NextMonitor ==
    \/ \E hl \in EdgeResidues : _monitoring_loop(hl[1], hl[2])
    \/ _task_processing_loop
    \/ \E failing \in TaskFailing : _execute_task(failing)

SpecMonitor == Init /\ [][NextMonitor]_vars

\* the orchestrator's own creators of Tasks, the create handler and the
\* monitoring loop, with the processing loop
NextIds ==
    \/ \E request \in Requests : create_task(request)
    \/ \E hl \in HashResidues : _monitoring_loop(hl[1], hl[2])
    \/ _task_processing_loop
    \/ \E failing \in TaskFailing : _execute_task(failing)

SpecIds == Init /\ [][NextIds]_vars

\* the REST create handler beside the producers (at two priorities) and the
\* processing loop
ApiPriorities == {Member(TaskPriority, "HIGH"), Member(TaskPriority, "LOW")}

NextApi ==
    \/ \E kind \in TaskKinds, priority \in ApiPriorities : Enqueue(kind, priority)
    \/ \E request \in Requests : create_task(request)
    \/ _task_processing_loop
    \/ \E failing \in TaskFailing : _execute_task(failing)

SpecApi == Init /\ [][NextApi]_vars

----------------------------------------------------------------------------
(* The agents called directly: POST /automation, POST /healing, POST /decisions *)

\* the executor behaviours tried: at most MaxFailing failing actions of the
\* template
Failings(process_type) ==
    {F \in SUBSET StepActions(process_type) : Cardinality(F) <= MaxFailing}

\* POST /automation/{process_type}, with producers filling the queue meanwhile
post_automation(process_type, failing) ==
    /\ auto' = [called |-> TRUE, process_type |-> process_type, failing |-> failing,
                run |-> execute_automation(process_type, failing)]
    /\ UNCHANGED <<task_queue, tasks, system_state, proc, dequeue_count, status_log,
                   dispatches, response, decision_history, decision, heal, loops>>

NextAuto ==
    \/ \E process_type \in ProcessTypes :
         \E failing \in Failings(process_type) : post_automation(process_type, failing)
    \/ \E kind \in TaskKinds : Enqueue(kind, Member(TaskPriority, "MEDIUM"))

SpecAuto == Init /\ [][NextAuto]_vars

\* an issue mapping: its 'symptoms' list, at most MaxSymptoms long
RECURSIVE SeqsUpTo(_, _)
SeqsUpTo(S, n) ==
    IF n = 0 THEN { << >> }
    ELSE LET shorter == SeqsUpTo(S, n - 1) IN
         shorter \cup {Append(q, x) : q \in shorter, x \in S}

Issues == [symptoms : SeqsUpTo(SymptomStrings, MaxSymptoms)]

\* the executor behaviours tried: no strategy fails, the first strategy of a
\* performance_degradation plan fails, the last of a generic plan fails
HealFailing == { {}, {"analyze_performance"}, {"collect_logs"} }

\* POST /healing
trigger_healing(issue, failing) ==
    /\ heal' = [called |-> TRUE, issue |-> issue, failing |-> failing,
                raised |-> HealingRun(issue, failing).raised,
                report |-> HealingRun(issue, failing).report]
    /\ UNCHANGED <<task_queue, tasks, system_state, proc, dequeue_count, status_log,
                   dispatches, response, decision_history, decision, auto, loops>>

\* every strategy's execution goes through
NextHeal == \E issue \in Issues : trigger_healing(issue, {})

SpecHeal == Init /\ [][NextHeal]_vars

\* executions that fail, on issues of shorter symptom lists
NextHealFail ==
    \E issue \in [symptoms : SeqsUpTo(SymptomStrings, MaxSymptoms - 1)],
       failing \in HealFailing : trigger_healing(issue, failing)

SpecHealFail == Init /\ [][NextHealFail]_vars

\* the records a decision history may hold: the code reads back only 'type'
\* and 'success' (absent on every record make_decision appends)
HistoryRecords == [type : DecisionTypes, success : {"unset", "true", "false"}]

InitDecision ==
    /\ InitOrchestrator
    /\ decision_history \in SeqsUpTo(HistoryRecords, MaxHistory)
    /\ decision = [called |-> FALSE]
    /\ auto = [called |-> FALSE]
    /\ heal = [called |-> FALSE]

\* POST /decisions
post_decisions(context) ==
    /\ Len(decision_history) < MaxHistory + MaxCalls
    /\ LET r == make_decision(decision_history, context) IN
       /\ decision' = [called |-> TRUE, raised |-> r.raised, decision |-> r.decision]
       /\ decision_history' = r.history
    /\ UNCHANGED <<task_queue, tasks, system_state, proc, dequeue_count, status_log,
                   dispatches, response, auto, heal, loops>>

NextDecision == \E context \in Contexts : post_decisions(context)

SpecDecision == InitDecision /\ [][NextDecision]_vars

----------------------------------------------------------------------------
(* Properties *)

Ids == 1..Len(tasks)
InQueue(id) == \E i \in 1..Len(task_queue) : task_queue[i] = id
Priority(id) == PriorityValue(tasks, id)
\* the Task this step pops and hands to _execute_task
Dequeues(id) == dispatches'[id] > dispatches[id]

\* C1: whenever the processing loop dequeues, the Task it pops has a priority
\* value no greater than that of any Task pending in the queue at that moment,
\* so a lower-valued Task goes first even when it was enqueued later; hence a
\* Task started while an earlier-created Task is still pending is never of
\* greater priority value (Low, Critical, Medium drain as Critical, Medium, Low).
C1_PriorityOrder ==
    /\ [][\A a \in Ids : Dequeues(a) =>
             \A b \in Ids : InQueue(b) => Priority(a) <= Priority(b)]_vars
    /\ [](\A a, b \in Ids :
             (/\ b < a
              /\ tasks[a].started_at # 0
              /\ (tasks[b].started_at = 0 \/ tasks[b].started_at > tasks[a].started_at))
             => Priority(a) <= Priority(b))

\* Low, Critical, Medium were created in that order and started as Critical,
\* Medium, Low
C1_Witness ==
    /\ Len(tasks) = 3
    /\ <<Priority(1), Priority(2), Priority(3)>> = <<4, 1, 3>>
    /\ <<tasks[1].started_at, tasks[2].started_at, tasks[3].started_at>> = <<3, 1, 2>>

\* C2: of two Tasks of equal priority the one appended earlier is dequeued
\* earlier: the later one is never started while the earlier one is pending,
\* and never has the earlier start
C2_FifoAmongEqual ==
    \A a, b \in Ids :
        (a < b /\ Priority(a) = Priority(b) /\ tasks[b].started_at # 0)
        => (tasks[a].started_at # 0 /\ tasks[a].started_at < tasks[b].started_at)

\* two Tasks of one priority, a Task of a more urgent priority appended between
\* them and served between them
C2_Witness ==
    \E a, b, c \in Ids :
        /\ a < b /\ b < c
        /\ Priority(a) = Priority(c) /\ Priority(b) < Priority(a)
        /\ tasks[a].started_at = 1 /\ tasks[b].started_at = 2
        /\ tasks[c].started_at = 3

StatusPaths ==
    { <<"pending">>, <<"pending", "in_progress">>,
      <<"pending", "in_progress", "completed">>,
      <<"pending", "in_progress", "failed">> }

\* C3: the statuses a Task has taken form a prefix of pending, in_progress,
\* completed or of pending, in_progress, failed, the last being its status now
C3_StatusPath ==
    \A id \in Ids :
        /\ status_log[id] \in StatusPaths
        /\ status_log[id][Len(status_log[id])] = tasks[id].status

\* one Task has gone all the way to completed, another to failed
C3_Witness ==
    \E a, b \in Ids :
        /\ status_log[a] = <<"pending", "in_progress", "completed">>
        /\ status_log[b] = <<"pending", "in_progress", "failed">>

Terminal(status) == status \in {"completed", "failed"}

\* C4: a completed or failed Task keeps its status, a dequeued Task is not in
\* the queue again, and no Task is dispatched twice
C4_TerminalIsFinal ==
    /\ [][\A id \in Ids : Terminal(tasks[id].status)
             => tasks'[id].status = tasks[id].status]_vars
    /\ [](\A id \in Ids :
             /\ dispatches[id] <= 1
             /\ (dispatches[id] = 1) = (tasks[id].status # "pending")
             /\ (dispatches[id] = 1) => ~InQueue(id)
             /\ Cardinality({i \in 1..Len(task_queue) : task_queue[i] = id}) <= 1)

\* a Task failed, and later Tasks were dequeued and finished after it
C4_Witness ==
    \E a, b \in Ids :
        /\ tasks[a].status = "failed" /\ Terminal(tasks[b].status)
        /\ tasks[a].started_at < tasks[b].started_at
        /\ ~InQueue(a) /\ dispatches[a] = 1

Registered == {"deployment", "scaling", "backup"}

\* C5 as stated: an unregistered process_type yields an Outcome with
\* success = false
C5_AsClaimed ==
    (auto.called /\ auto.process_type \notin Registered)
    => (~auto.run.raised /\ auto.run.outcome # None /\ ~auto.run.outcome.success)

\* C5 amended: an unregistered process_type makes execute_automation raise
\* "Unknown process type": no Outcome is returned and no step is executed, and
\* the call leaves the task queue and every Task as they were
C5_UnknownTypeRaises ==
    /\ []((auto.called /\ auto.process_type \notin Registered)
            => (/\ auto.run.raised
                /\ auto.run.error = "Unknown process type"
                /\ auto.run.outcome = None))
    /\ [][auto' # auto => UNCHANGED <<task_queue, tasks, status_log, dispatches>>]_vars

\* the call was made with a name no template has, while Tasks were queued
C5_Witness ==
    /\ auto.called /\ auto.process_type = "restore" /\ auto.run.raised
    /\ Len(task_queue) = 2

TemplateSteps(process_type) == _get_process_template(process_type).steps

\* the first position of the template whose action the executor fails, 0 if none
FirstFailure(process_type, failing) ==
    LET steps == TemplateSteps(process_type)
        bad == {i \in 1..Len(steps) : steps[i].action \in failing}
    IN  IF bad = {} THEN 0 ELSE CHOOSE i \in bad : \A j \in bad : i <= j

\* C6: the steps run are the template's, in order, up to and including the
\* first one that fails; when step k is that one the Outcome has success =
\* false, the step's error, completed_steps = k and total_steps = the template
\* length, and when none fails every step runs and success = true
C6_FailFast ==
    (auto.called /\ auto.process_type \in Registered) =>
        LET steps == TemplateSteps(auto.process_type)
            k == FirstFailure(auto.process_type, auto.failing)
            o == auto.run.outcome
            ran == IF k = 0 THEN Len(steps) ELSE k
        IN  /\ ~auto.run.raised
            /\ Len(o.results) = ran
            /\ \A i \in 1..ran : o.results[i].action = steps[i].action
            /\ \A i \in 1..ran : o.results[i].success = (i # k)
            /\ o.success = (k = 0)
            /\ o.completed_steps = ran
            /\ o.total_steps = Len(steps)
            /\ k # 0 => o.error = o.results[k].error

\* backup with an executor failing create_backup (and a later step too):
\* completed_steps = 2 of 4
C6_Witness ==
    /\ auto.called /\ auto.process_type = "backup"
    /\ auto.failing = {"create_backup", "cleanup_old_backups"}
    /\ ~auto.run.outcome.success
    /\ auto.run.outcome.completed_steps = 2 /\ auto.run.outcome.total_steps = 4

ResourceExhaustion ==
    [issue_type |-> "resource_exhaustion", severity |-> "critical", confidence |-> 95]

SymptomText == str(GetSymptoms(heal.issue))

\* the last diagnose_and_heal call returned a Report
Healed == heal.called /\ ~heal.raised

\* C7 as stated: out_of_memory in the symptom text always gives
\* resource_exhaustion, critical, 0.95
C7_AsClaimed ==
    (Healed /\ Contains(SymptomText, OUT_OF_MEMORY))
    => heal.report.diagnosis = ResourceExhaustion

\* C7 amended: out_of_memory in a symptom text that does not contain
\* connection_refused gives resource_exhaustion, critical, 0.95, whatever else
\* (timeout included) the text contains
C7_OutOfMemory ==
    (/\ Healed
     /\ Contains(SymptomText, OUT_OF_MEMORY)
     /\ ~Contains(SymptomText, CONNECTION_REFUSED))
    => heal.report.diagnosis = ResourceExhaustion

\* timeout comes first in the symptoms, out_of_memory after it
C7_Witness ==
    /\ Healed
    /\ heal.issue.symptoms = <<TIMEOUT, OUT_OF_MEMORY>>
    /\ heal.report.diagnosis = ResourceExhaustion

\* C8: the confidence of a returned Decision is at least 0 and at most 1
C8_ConfidenceInUnitInterval ==
    (decision.called /\ ~decision.raised) =>
        LET c == decision.decision.confidence IN
        /\ c.den > 0
        /\ 0 <= c.num
        /\ c.num <= c.den

\* a Decision was returned after two calls, on a history holding a record of
\* its type with success = false
C8_Witness ==
    /\ decision.called /\ ~decision.raised
    /\ Len(decision_history) = MaxHistory + MaxCalls
    /\ \E i \in 1..Len(decision_history) :
          /\ decision_history[i].type = decision.decision.type
          /\ decision_history[i].success = "false"
    /\ decision.decision.confidence.num * 2 < decision.decision.confidence.den

\* C9: no step makes SystemState.completed_tasks smaller
C9_CompletedTasksMonotone ==
    [][system_state'.completed_tasks >= system_state.completed_tasks]_vars

\* a refresh ran after Tasks had completed and failed, with Tasks still queued
C9_Witness ==
    /\ system_state.system_load > 0
    /\ Len(task_queue) > 0
    /\ \E a, b \in Ids : tasks[a].status = "completed" /\ tasks[b].status = "failed"

\* a request the claim calls recognized: a known agent-type tag, and a priority
\* given by its number or by its name
PriorityNumerals == {"1", "2", "3", "4"}
PriorityNames == {m.name : m \in TaskPriority}
Recognized(request) ==
    /\ \E m \in AgentType : m.value.v = request.agent_type
    /\ request.priority \in PriorityNumerals \cup PriorityNames

\* C10 as stated: a recognized create-task request appends exactly one pending
\* Task of that agent type and is answered with its task_id and a status, not
\* with a validation error
C10_AsClaimed ==
    [][\A request \in Requests :
          (Recognized(request) /\ create_task(request)) =>
              /\ response'.code = 200
              /\ Len(task_queue') = Len(task_queue) + 1
              /\ Len(tasks') = Len(tasks) + 1
              /\ tasks'[Len(tasks')].status = "pending"
              /\ tasks'[Len(tasks')].agent_type.value.v = request.agent_type]_vars

\* a request the claim calls invalid: its agent_type is no agent-type tag, or
\* its priority is neither a priority's number nor a priority's name
Unrecognized(request) == ~Recognized(request)

\* C11: a create-task request whose agent_type or priority is not a recognized
\* enum value is answered with a 4xx code, and the queue and the Tasks are
\* after the request what they were before it
C11_InvalidRejected ==
    [][\A request \in Requests :
          (Unrecognized(request) /\ create_task(request)) =>
              /\ response'.code \in 400..499
              /\ task_queue' = task_queue
              /\ tasks' = tasks]_vars

\* a request with an unknown agent_type was refused while Tasks were queued
C11_Witness ==
    /\ response.code = 400
    /\ response.detail = [value |-> "planner", enum |-> "AgentType"]
    /\ Len(task_queue) > 0

\* the position of the first option whose score no other option exceeds
FirstMaximal(options, context) ==
    CHOOSE i \in 1..Len(options) :
        \A j \in 1..Len(options) :
            /\ _calculate_option_score(options[j], context)
                   <= _calculate_option_score(options[i], context)
            /\ j < i => _calculate_option_score(options[j], context)
                           < _calculate_option_score(options[i], context)

\* C12 as stated: whatever the context's urgency (positive, zero, negative or
\* absent), the Decision make_decision returns for a non-empty option list
\* selects an option of greatest score, the first generated among equals
C12_AsClaimed ==
    [][\A context \in Contexts :
          (post_decisions(context) /\ _generate_options(context) # << >>) =>
              LET options == _generate_options(context) IN
              /\ ~decision'.raised
              /\ decision'.decision.selected_option
                     = options[FirstMaximal(options, context)]]_vars

\* the options generated for a decision type
OptionsOfType(decision_type) ==
    _generate_options(CHOOSE context \in Contexts :
                          _classify_decision_type(context) = decision_type)

\* C13: a make_decision call either raises and returns no Decision, or returns
\* a Decision that selects one of the options generated for its type; so no
\* Decision is ever returned for a type with an empty option list
\* (business_strategy, operational_decision), and none selects nothing
C13_EmptyOptionsRaise ==
    decision.called =>
        IF decision.raised THEN decision.decision = None
        ELSE /\ decision.decision # None
             /\ OptionsOfType(decision.decision.type) # << >>
             /\ decision.decision.selected_option # None
             /\ \E i \in 1..Len(OptionsOfType(decision.decision.type)) :
                   decision.decision.selected_option
                      = OptionsOfType(decision.decision.type)[i]

\* a call raised after an earlier call had returned and been recorded
C13_Witness ==
    /\ decision.called /\ decision.raised /\ decision.decision = None
    /\ Len(decision_history) > MaxHistory

\* Tasks made by the create handler or by the monitoring loop
MadeByCreator(id) == tasks[id].task_id.prefix \in CreatorPrefixes

C15_AsClaimed ==
    /\ system_state.health_score \in 0..100
    /\ system_state.system_load \in 0..100

\* C16: whatever the number of iterations in a row that raised, both loops are
\* still running; a loop whose last iteration raised sleeps its fixed interval
\* (60 s monitoring, 5 s processing) and can run its next iteration
C16_LoopsSurvive ==
    /\ loops.monitoring.alive
    /\ loops.processing.alive
    /\ loops.monitoring.failures > 0 =>
          /\ loops.monitoring.interval = MONITOR_INTERVAL
          /\ ENABLED (\E hl \in HashResidues : _monitoring_loop(hl[1], hl[2]))
    /\ loops.processing.failures > 0 =>
          /\ loops.processing.interval = PROCESS_INTERVAL
          /\ (proc.pc = "sleep" /\ Len(task_queue) > 0) => ENABLED _task_processing_loop

\* both loops have failed as often in a row as the model allows, the last
\* processing failure coming after a Task had been run to its end
C16_Witness ==
    /\ loops.monitoring.failures = MaxErrors
    /\ loops.processing.failures = MaxErrors
    /\ Len(task_queue) > 0
    /\ \E id \in Ids : Terminal(tasks[id].status)

\* the records the history held before the call that returned the Decision in
\* decision (the call appended its own record at the end), of that Decision's type
PriorOfType ==
    {i \in 1..(Len(decision_history) - 1) :
        decision_history[i].type = decision.decision.type}
\* those among them that count as successful: flagged true, or not flagged
PriorSuccesses == {i \in PriorOfType : decision_history[i].success \in {"true", "unset"}}

\* the fraction equals n / d
FracIs(f, n, d) == f.num * d = f.den * n

\* C17 as stated: a returned Decision's confidence is min(1, (0.7 + r) / 2),
\* r being the share of successful prior decisions of its type, and 1.0 when
\* there is none
C17_AsClaimed ==
    (decision.called /\ ~decision.raised) =>
        LET n == Cardinality(PriorOfType)
            s == Cardinality(PriorSuccesses)
        IN  IF n = 0 THEN FracIs(decision.decision.confidence, 17, 20)
            ELSE FracIs(decision.decision.confidence, 7 * n + 10 * s, 20 * n)

\* C17: a returned Decision's confidence is 0.7 when the history holds no prior
\* decision of its type, and (0.7 + r) / 2 otherwise, r being the share of
\* those prior decisions that are flagged successful or not flagged at all
C17_Confidence ==
    (decision.called /\ ~decision.raised) =>
        LET n == Cardinality(PriorOfType)
            s == Cardinality(PriorSuccesses)
        IN  IF n = 0 THEN FracIs(decision.decision.confidence, 7, 10)
            ELSE FracIs(decision.decision.confidence, 7 * n + 10 * s, 20 * n)

\* a later decision of a type, after prior ones none of which is flagged as
\* failed (confidence 0.85), some of them unflagged
C17_Witness ==
    /\ decision.called /\ ~decision.raised
    /\ Cardinality(PriorOfType) >= 2
    /\ PriorSuccesses = PriorOfType
    /\ \E i \in PriorOfType : decision_history[i].success = "unset"
    /\ FracIs(decision.decision.confidence, 17, 20)

\* an automation Outcome that reports a failed step
ErrorOutcome(result) ==
    /\ result # None
    /\ "success" \in DOMAIN result
    /\ ~result.success

\* C18 as stated: a dispatched Task whose agent returned an error outcome (an
\* automation Outcome with success = false) never ends completed: it ends
\* failed, with the step's error as its error_message
C18_AsClaimed ==
    \A id \in Ids :
        /\ ~(tasks[id].status = "completed" /\ ErrorOutcome(tasks[id].result))
        /\ ErrorOutcome(tasks[id].result) =>
              /\ tasks[id].status = "failed"
              /\ tasks[id].error_message = tasks[id].result.error

\* the self-healing Tasks a step appends for the given issue type
AppendedHealers(issue_type) ==
    {id \in (Len(tasks) + 1)..Len(tasks') :
        /\ tasks'[id].agent_type = SELF_HEALER
        /\ tasks'[id].parameters.issue.type = issue_type}

\* C19: a monitoring iteration, once it has refreshed SystemState, appends one
\* pending self-healing Task of priority HIGH for health_score < 0.8 and one
\* for system_load > 0.9, each queued, and no other self-healing Task
C19_OneHealerPerThreshold ==
    [][\A hl \in HashResidues :
          _monitoring_loop(hl[1], hl[2]) =>
              /\ Cardinality(AppendedHealers("health_degradation"))
                    = IF system_state'.health_score < 80 THEN 1 ELSE 0
              /\ Cardinality(AppendedHealers("high_load"))
                    = IF system_state'.system_load > 90 THEN 1 ELSE 0
              /\ \A id \in (Len(tasks) + 1)..Len(tasks') :
                    tasks'[id].agent_type = SELF_HEALER =>
                        /\ id \in AppendedHealers("health_degradation")
                                   \cup AppendedHealers("high_load")
                        /\ tasks'[id].status = "pending"
                        /\ tasks'[id].priority = Member(TaskPriority, "HIGH")
                        /\ \E i \in 1..Len(task_queue') : task_queue'[i] = id]_vars

\* an iteration found the load above 0.9 and queued its self-healing Task
\* beside a producer's Task
C19_Witness ==
    /\ system_state.system_load > 90
    /\ \E id \in Ids :
          /\ tasks[id].agent_type = SELF_HEALER
          /\ tasks[id].parameters.issue.type = "high_load"
          /\ tasks[id].status = "pending"
          /\ InQueue(id)
          /\ id = Len(tasks)
    /\ \E id \in Ids : tasks[id].agent_type # SELF_HEALER

\* a step in which make_decision was called and did something to the history
\* or to what the caller got
DecisionCall == decision' # decision \/ decision_history' # decision_history

\* C20 as stated: every make_decision call, whether it returns a Decision or
\* raises, leaves the history exactly one record longer
C20_AsClaimed ==
    [][\A context \in Contexts :
          post_decisions(context) =>
              Len(decision_history') = Len(decision_history) + 1]_vars

\* C20: a make_decision call that returns a Decision appends exactly one
\* record, of the Decision's type, to the history; a call that raises leaves
\* the history as it was
C20_AppendsWhenReturning ==
    [][DecisionCall =>
          IF decision'.raised
          THEN decision_history' = decision_history
          ELSE /\ Len(decision_history') = Len(decision_history) + 1
               /\ SubSeq(decision_history', 1, Len(decision_history)) = decision_history
               /\ decision_history'[Len(decision_history')].type
                     = decision'.decision.type]_vars

\* a call returned and was recorded, and a later call raised and was not
C20_Witness ==
    /\ decision.called /\ decision.raised
    /\ Len(decision_history) = MaxHistory + 1
    /\ decision_history[MaxHistory + 1].success = "unset"

\* a Task of strictly higher priority (lower value) is queued beside the Task
Outranked(id) == \E h \in Ids : InQueue(h) /\ Priority(h) < Priority(id)

Occurrences(id) == Cardinality({i \in 1..Len(task_queue) : task_queue[i] = id})

\* C22: every Task ever enqueued is either in the queue exactly once and not
\* yet dequeued, or out of the queue and dequeued exactly once; the queue holds
\* nothing else; and while an agent is executing a dequeued Task, every step
\* keeps the queued Tasks in place and queues each Task it creates
C22_NoLossNoDuplicate ==
    /\ [](\A id \in Ids :
             \/ Occurrences(id) = 1 /\ dispatches[id] = 0
             \/ Occurrences(id) = 0 /\ dispatches[id] = 1)
    /\ [](\A i \in 1..Len(task_queue) : task_queue[i] \in Ids)
    /\ [][proc.pc = "await_agent" =>
             /\ Len(task_queue') >= Len(task_queue)
             /\ SubSeq(task_queue', 1, Len(task_queue)) = task_queue
             /\ \A id \in (Len(tasks) + 1)..Len(tasks') :
                   \E i \in 1..Len(task_queue') : task_queue'[i] = id]_vars

\* while an agent is executing a Task, the queue holds a Task of higher
\* priority (one that arrived after the dequeue, or it would have gone first)
\* and a monitoring cycle's Task
C22_Witness ==
    /\ proc.pc = "await_agent"
    /\ \E b \in Ids : InQueue(b) /\ Priority(b) < Priority(proc.task)
    /\ \E c \in Ids : InQueue(c) /\ tasks[c].task_id.prefix = "healing"

\* the agent the Task is dispatched to raises
AgentRaises(id) == AgentCall(tasks[id], decision_history, {}).raised

\* C23: a Task whose agent raises ends failed, with error_message set, result
\* unset and a completion timestamp, as soon as it is dispatched; the loop's
\* own handler is not entered, the loop is back at its sleep, and it can
\* dequeue the next queued Task
C23_RaisingAgentFails ==
    /\ \A id \in Ids :
          (AgentRaises(id) /\ dispatches[id] > 0) =>
              /\ tasks[id].status = "failed"
              /\ tasks[id].error_message # ""
              /\ tasks[id].result = None
              /\ tasks[id].completed_at # 0
              /\ status_log[id] = <<"pending", "in_progress", "failed">>
    /\ \A id \in Ids : tasks[id].status = "failed" => AgentRaises(id)
    /\ loops.processing.alive /\ loops.processing.failures = 0
    /\ (proc.pc = "sleep" /\ Len(task_queue) > 0) => ENABLED _task_processing_loop

\* a decision with no options and an automation without a process_type have
\* failed, and a Task dequeued after both has completed
C23_Witness ==
    \E a, b, c \in Ids :
        /\ tasks[a].agent_type = DECISION_MAKER /\ tasks[a].status = "failed"
        /\ tasks[b].agent_type = PROCESS_AUTOMATOR /\ tasks[b].status = "failed"
        /\ tasks[b].error_message = "Unknown process type"
        /\ tasks[c].status = "completed"
        /\ tasks[c].started_at > tasks[a].started_at
        /\ tasks[c].started_at > tasks[b].started_at

\* the markers in the order the claim gives, each with its diagnosis
MarkerRecords ==
    << [marker |-> CONNECTION_REFUSED,
        diagnosis |-> [issue_type |-> "service_unavailable", severity |-> "high",
                       confidence |-> 90]],
       [marker |-> OUT_OF_MEMORY, diagnosis |-> ResourceExhaustion],
       [marker |-> TIMEOUT,
        diagnosis |-> [issue_type |-> "performance_degradation", severity |-> "medium",
                       confidence |-> 80]] >>

\* the diagnosis of the first marker the text contains, or unknown / medium / 0.3
FirstMarkerDiagnosis(text) ==
    LET present == {i \in 1..Len(MarkerRecords) : Contains(text, MarkerRecords[i].marker)}
    IN  IF present = {}
        THEN [issue_type |-> "unknown", severity |-> "medium", confidence |-> 30]
        ELSE MarkerRecords[CHOOSE i \in present : \A j \in present : i <= j].diagnosis

\* the actions of the static table, in order
TableActions(issue_type) ==
    CASE issue_type = "service_unavailable" ->
           <<"restart_service", "check_dependencies", "verify_configuration">>
      [] issue_type = "resource_exhaustion" ->
           <<"scale_resources", "optimize_memory_usage", "restart_services">>
      [] issue_type = "performance_degradation" ->
           <<"analyze_performance", "optimize_queries", "scale_horizontally">>
      [] OTHER -> <<"investigate_issue", "collect_logs">>

\* C24: the diagnosis is the record of the first of connection_refused,
\* out_of_memory, timeout that the symptom text contains, or unknown / medium /
\* 0.3 when it contains none; the plan carries that issue_type and the table's
\* actions for it, in order, the i-th at priority i (unknown: investigate_issue,
\* collect_logs)
C24_DiagnosisAndPlan ==
    Healed =>
        LET diagnosis == heal.report.diagnosis
            plan == heal.report.healing_plan
            actions == TableActions(diagnosis.issue_type)
        IN  /\ diagnosis = FirstMarkerDiagnosis(SymptomText)
            /\ plan.issue_type = diagnosis.issue_type
            /\ Len(plan.strategies) = Len(actions)
            /\ \A i \in 1..Len(actions) :
                  plan.strategies[i] = [action |-> actions[i], priority |-> i]

\* symptoms ["timeout"] gave performance_degradation and a plan that starts
\* with analyze_performance at priority 1
C24_Witness ==
    /\ Healed
    /\ heal.issue.symptoms = <<TIMEOUT>>
    /\ heal.report.diagnosis.issue_type = "performance_degradation"
    /\ heal.report.healing_plan.strategies[1]
          = [action |-> "analyze_performance", priority |-> 1]

\* the strategies of the Report's results whose execution did not fail
SucceededStrategies ==
    {i \in 1..Len(heal.report.healing_result.results) :
        heal.report.healing_result.results[i].action \notin heal.failing}

\* C25 as stated: diagnose_and_heal returns a Report whose success_rate is the
\* share of the plan's strategies that were executed successfully, below 1.0
\* when a strategy of the plan fails
C25_AsClaimed ==
    heal.called =>
        /\ ~heal.raised
        /\ heal.report.healing_result.success_rate
              * heal.report.healing_result.total_strategies
           = 100 * Cardinality(SucceededStrategies)

\* C26: every Task in the queue is pending, and SystemState's active_tasks,
\* completed_tasks and failed_tasks are 0, in every reachable state
C26_CountersStayZero ==
    /\ \A i \in 1..Len(task_queue) : tasks[task_queue[i]].status = "pending"
    /\ system_state.active_tasks = 0
    /\ system_state.completed_tasks = 0
    /\ system_state.failed_tasks = 0

\* a refresh has run, one Task has completed, one has failed, one is being
\* executed, and the counters are still 0
C26_Witness ==
    /\ system_state.system_load > 0
    /\ proc.pc = "await_agent" /\ tasks[proc.task].status = "in_progress"
    /\ \E a, b \in Ids : tasks[a].status = "completed" /\ tasks[b].status = "failed"
    /\ system_state.active_tasks = 0 /\ system_state.completed_tasks = 0

\* Tasks made by the monitoring loop
MadeByMonitor(id) == tasks[id].task_id.prefix \in MonitorPrefixes

\* C27: no refresh leaves health_score below 0.8 or completed_tasks above 100;
\* every Task the monitoring loop has made is a self-healing Task of priority
\* HIGH for a high_load issue (none for health_degradation, none for an
\* optimization); and a monitoring iteration appends at most one Task
C27_OnlyHighLoadTasks ==
    /\ [](system_state.health_score >= 80 /\ system_state.completed_tasks <= 100)
    /\ [](\A id \in Ids :
             MadeByMonitor(id) =>
                 /\ tasks[id].task_id.prefix = "healing"
                 /\ tasks[id].agent_type = SELF_HEALER
                 /\ tasks[id].priority = Member(TaskPriority, "HIGH")
                 /\ tasks[id].parameters.issue.type = "high_load")
    /\ [][system_state' # system_state => Len(tasks') <= Len(tasks) + 1]_vars

\* the loop has made as many high_load Tasks as the model allows, the last
\* refresh giving the highest health_score and load the formulas can give
C27_Witness ==
    /\ Len(tasks) = MaxTasks
    /\ \A id \in Ids : MadeByMonitor(id) /\ tasks[id].parameters.issue.type = "high_load"
    /\ system_state.health_score = 104 /\ system_state.system_load = 99

\* the Tasks in status in_progress
InProgress == { id \in Ids : tasks[id].status = "in_progress" }

\* C28: at most one Task is in_progress at any time, it is the Task whose
\* agent call the processing loop awaits, and the loop dequeues a Task only
\* when every Task dequeued before has reached completed or failed
C28_OneInProgress ==
    /\ [](/\ Cardinality(InProgress) <= 1
          /\ \A id \in InProgress : proc.pc = "await_agent" /\ proc.task = id)
    /\ [][dequeue_count' # dequeue_count =>
              /\ InProgress = {}
              /\ dequeue_count' = dequeue_count + 1
              /\ Len(task_queue') = Len(task_queue) - 1]_vars

\* a Task is executing while two Tasks that arrived after it was dequeued,
\* one of them Critical, wait in the queue
C28_Witness ==
    /\ proc.pc = "await_agent" /\ InProgress = {proc.task}
    /\ Len(task_queue) >= 2
    /\ \A i \in 1..Len(task_queue) : task_queue[i] > proc.task
    /\ \E i \in 1..Len(task_queue) :
           tasks[task_queue[i]].priority = Member(TaskPriority, "CRITICAL")

\* C29: with finitely many Tasks enqueued, the processing loop scheduled
\* fairly and every agent call ending, every enqueued Task eventually reaches
\* completed or failed, and the queue eventually becomes and stays empty (from
\* some point on the queue is empty and every Task that ever arrived is terminal)
C29_QueueDrains ==
    <>[](task_queue = <<>> /\ \A id \in Ids : Terminal(tasks[id].status))

\* every Task that could arrive has arrived and ended, some after an agent
\* returned and some after an agent raised, the last one when it was awaited
C29_Witness ==
    /\ Len(tasks) = MaxTasks /\ task_queue = <<>> /\ proc.pc = "sleep"
    /\ \A id \in Ids : Terminal(tasks[id].status)
    /\ \E a, b \in Ids : tasks[a].status = "completed" /\ tasks[b].status = "failed"
    /\ status_log[MaxTasks] = <<"pending", "in_progress", "failed">>
    /\ dispatches[MaxTasks] = 1

\* the Tasks whose agent-type tag has no agent behind it
Agentless(id) == tasks[id].agent_type \in {SYSTEM_MONITOR, OPTIMIZER}

\* C30: a terminal Task is either completed with a result and no error
\* message, or failed with an error message and no result, and has both its
\* start and its completion timestamp; a terminal Task whose tag has no agent
\* is completed, its result the 'Unknown agent type' error
C30_TerminalShape ==
    \A id \in Ids :
        Terminal(tasks[id].status) =>
            /\ \/ /\ tasks[id].status = "completed"
                  /\ tasks[id].result # None /\ tasks[id].error_message = ""
               \/ /\ tasks[id].status = "failed"
                  /\ tasks[id].error_message # "" /\ tasks[id].result = None
            /\ tasks[id].started_at > 0
            /\ tasks[id].completed_at >= tasks[id].started_at
            /\ Agentless(id) =>
                   /\ tasks[id].status = "completed"
                   /\ tasks[id].result = [error |-> "Unknown agent type"]

\* a Task without an agent has ended, beside one that completed through its
\* agent and one that failed
C30_Witness ==
    \E a, b, c \in Ids :
        /\ Agentless(a) /\ tasks[a].status = "completed"
        /\ ~Agentless(b) /\ tasks[b].status = "completed"
        /\ tasks[c].status = "failed"

====
